---- MODULE Spec2Model ----
(***************************************************************************)
(* use-sx: the compiler of property-centric `sx` style specifications      *)
(* into nested CSS objects (useSx / mergeSx / control).                    *)
(*                                                                         *)
(* JavaScript values are tagged records:                                   *)
(*   [t |-> "string", s], [t |-> "number", n], [t |-> "boolean", b],       *)
(*   [t |-> "null"], [t |-> "undefined"], [t |-> "array", a],              *)
(*   [t |-> "function", f, ...] and                                        *)
(*   [t |-> "object", o] where o is the sequence of the object's own       *)
(*   properties [k, v] in insertion order (the order Object.keys gives).   *)
(***************************************************************************)
EXTENDS Integers, Sequences, FiniteSets, TLC

VARIABLES
    heap,         \* the caller's style specification objects, by reference
    sx,           \* props.sx: a reference, a falsy value, or an array of them
    maps,         \* props.maps
    propSelectors,\* props.selectors
    hookSelectors,\* the registry given to createUseSx
    propTheme,    \* props.theme
    ctxTheme,     \* useContext(ThemeContext)
    propControl,  \* props.control
    ctxControl,   \* useContext(ControlContext)
    merged,       \* what the last mergeSx(sx) call returned (a reference)
    output,       \* what the last useStyle(props) call returned
    calls,        \* the caller-supplied functions invoked by the last useStyle
    pc            \* which of the two calls have been made, and how the last ended

vars == << heap, sx, maps, propSelectors, hookSelectors, propTheme, ctxTheme,
           propControl, ctxControl, merged, output, calls, pc >>

----------------------------------------------------------------------------
(* JavaScript values *)

Str(s) == [t |-> "string", s |-> s]
Num(n) == [t |-> "number", n |-> n]
Bool(b) == [t |-> "boolean", b |-> b]
Null == [t |-> "null"]
Undefined == [t |-> "undefined"]
Arr(a) == [t |-> "array", a |-> a]
Obj(o) == [t |-> "object", o |-> o]
Ref(r) == [t |-> "ref", r |-> r]
P(k, v) == [k |-> k, v |-> v]
EmptyObject == Obj(<< >>)

\* ToBoolean
Truthy(x) ==
    CASE x.t = "undefined" -> FALSE
      [] x.t = "null" -> FALSE
      [] x.t = "boolean" -> x.b
      [] x.t = "string" -> x.s # ""
      [] x.t = "number" -> x.n # 0
      [] OTHER -> TRUE

\* Object.keys(obj)
Keys(obj) == [i \in 1..Len(obj.o) |-> obj.o[i].k]

KeySet(obj) == {obj.o[i].k : i \in 1..Len(obj.o)}

HasOwn(obj, k) == k \in KeySet(obj)

\* obj[k]
Get(obj, k) ==
    IF obj.t = "object" /\ HasOwn(obj, k)
    THEN (CHOOSE e \in {obj.o[i] : i \in 1..Len(obj.o)} : e.k = k).v
    ELSE Undefined

\* obj[k] = v : an existing key keeps its place, a new key goes last
Set(obj, k, v) ==
    IF HasOwn(obj, k)
    THEN Obj([i \in 1..Len(obj.o) |-> IF obj.o[i].k = k THEN P(k, v) ELSE obj.o[i]])
    ELSE Obj(Append(obj.o, P(k, v)))

\* delete obj[k]
Delete(obj, k) == Obj(SelectSeq(obj.o, LAMBDA e : e.k # k))

RECURSIVE AssignFrom(_, _, _)
AssignFrom(target, source, i) ==
    IF i > Len(source.o) THEN target
    ELSE AssignFrom(Set(target, source.o[i].k, source.o[i].v), source, i + 1)

\* Object.assign(target, source): the value of target afterwards. Every own
\* property of source is copied, in order; a null, undefined or boolean
\* source has none.
ObjectAssign(target, source) ==
    IF source.t = "object" THEN AssignFrom(target, source, 1) ELSE target

----------------------------------------------------------------------------
(* control.tsx: the control boundary *)

\* The class selector styled-components gives the wrapped Component: what
\* `${Component}` evaluates to.
ComponentSelector == ".sc-AxjAm"

\* control(Component): the value it provides on ControlContext
controlContext ==
    Obj(<< P("select", [t |-> "function", f |-> "select", component |-> ComponentSelector]) >>)

\* control.select(selectorType)
select(control, selectorType) == Get(control, "select").component \o selectorType

----------------------------------------------------------------------------
(* ensureTruthyArray and flatMap *)

RECURSIVE ConcatAll(_, _)
ConcatAll(items, i) ==
    IF i > Len(items) THEN << >>
    ELSE (IF items[i].t = "array" THEN items[i].a ELSE << items[i] >>)
         \o ConcatAll(items, i + 1)

\* flatMap(array, fn), given mapped = array.map(fn):
\* [].concat.apply([], mapped) flattens one level
flatMap(mapped) == ConcatAll(mapped, 1)

\* ensureTruthyArray(x): a dense sequence of the truthy entries, one level of
\* nesting flattened; a single specification becomes a sequence of one.
ensureTruthyArray(x) ==
    IF x.t = "array" THEN SelectSeq(flatMap(x.a), Truthy)
    ELSE IF Truthy(x) THEN << x >>
    ELSE << >>

\* isPlainObject(x)
isPlainObject(x) == x.t = "object"

----------------------------------------------------------------------------
(* mergeSx *)

\* The value a reference designates in heap h
Deref(h, x) == IF x.t = "ref" THEN h[x.r] ELSE x

\* reduce without an initial value: the first entry is the accumulator
ReduceInitFirstEntry(h, list) ==
    IF Len(list) = 0 THEN [heap |-> Append(h, EmptyObject), ref |-> Len(h) + 1, from |-> 1]
    ELSE [heap |-> h, ref |-> list[1].r, from |-> 2]

\* reduce(..., {}): the accumulator is a new empty object
ReduceInit(h, list) ==
    [heap |-> Append(h, EmptyObject), ref |-> Len(h) + 1, from |-> 1]

\* a merge that keeps the first definition of a key
AssignStepKeepFirst(target, source) ==
    IF source.t # "object" THEN target
    ELSE AssignFrom(target,
                    Obj(SelectSeq(source.o, LAMBDA e : ~HasOwn(target, e.k))), 1)

\* (acc, x) => Object.assign(acc, x)
AssignStep(target, source) == ObjectAssign(target, source)

RECURSIVE Reduce(_, _, _, _)
Reduce(h, acc, list, i) ==
    IF i > Len(list) THEN [heap |-> h, ref |-> acc]
    ELSE Reduce([h EXCEPT ![acc] = AssignStep(h[acc], Deref(h, list[i]))],
                acc, list, i + 1)

\* mergeSx(sx) in heap h: the heap afterwards and the reference returned
mergeSx(h, sxArg) ==
    LET list == ensureTruthyArray(sxArg)
        init == ReduceInit(h, list)
    IN  Reduce(init.heap, init.ref, list, init.from)

----------------------------------------------------------------------------
(* Selectors *)

\* What a call that raised evaluates to
Throw == [t |-> "throw"]

\* a resolver that ignores the override flags of the control
DefaultSelectorIgnoringFlags(type, theme, control) ==
    IF ~Truthy(control) THEN Str("&:" \o type)
    ELSE Str(select(control, ":" \o type) \o " &")

\* a resolver that collapses a true flag to the element's own pseudo-class
DefaultSelectorTrueAsPseudo(type, theme, control) ==
    IF ~Truthy(control) THEN Str("&:" \o type)
    ELSE IF Get(control, type) # Undefined
    THEN (IF Truthy(Get(control, type)) THEN Str("&:" \o type) ELSE Null)
    ELSE Str(select(control, ":" \o type) \o " &")

\* The function createDefaultSelector(type) returns, applied to (theme, control)
DefaultSelector(type, theme, control) ==
    IF ~Truthy(control) THEN Str("&:" \o type)
    ELSE IF Get(control, type) # Undefined
    THEN (IF Truthy(Get(control, type)) THEN Str("&") ELSE Null)
    ELSE Str(select(control, ":" \o type) \o " &")

createDefaultSelector(type) == [t |-> "function", f |-> "defaultSelector", type |-> type]

defaultSelectors ==
    Obj(<< P("active", createDefaultSelector("active")),
           P("checked", createDefaultSelector("checked")),
           P("disabled", createDefaultSelector("disabled")),
           P("focus", createDefaultSelector("focus")),
           P("focusWithin", createDefaultSelector("focus")),
           P("hover", createDefaultSelector("hover")) >>)

\* (theme) => theme.media.mobile
mobileSelector == [t |-> "function", f |-> "mobile"]

\* { ...defaultSelectors, mobile: (theme) => theme.media.mobile }
customSelectors == Set(defaultSelectors, "mobile", mobileSelector)

\* selectors[selectorName](theme, control)
CallSelector(fn, theme, control) ==
    IF fn.f = "defaultSelector" THEN DefaultSelector(fn.type, theme, control)
    ELSE IF Get(theme, "media").t \in {"undefined", "null"} THEN Throw
    ELSE Get(Get(theme, "media"), "mobile")

----------------------------------------------------------------------------
(* Theme functions and maps *)

\* (theme) => theme[key]
themeFn(key) == [t |-> "function", f |-> "theme", key |-> key]

\* x(theme)
CallThemeFn(fn, theme) == Get(theme, fn.key)

\* (value) => ({ fill: value })
colorToFill == [t |-> "function", f |-> "colorToFill"]

\* maps[key](mapValue, mergedTheme)
CallMap(fn, value, theme) == Obj(<< P("fill", value) >>)

----------------------------------------------------------------------------
(* mutableCompileSxProperty *)

\* A compilation in progress: the output level being written, the
\* caller-supplied functions invoked so far, and whether one of them raised.
CompileState(out, log, threw) == [out |-> out, calls |-> log, threw |-> threw]

\* 'default' handled as one more selector name
IsDefaultNever(selectorName) == FALSE

\* selectorName !== 'default', negated
IsDefault(selectorName) == selectorName = "default"

\* every name used verbatim, the registry ignored
ResolveSelectorVerbatim(selectors, selectorName, theme, control) == Str(selectorName)

\* selectors[selectorName] ? selectors[selectorName](theme, control) : selectorName
ResolveSelector(selectors, selectorName, theme, control) ==
    IF Truthy(Get(selectors, selectorName))
    THEN CallSelector(Get(selectors, selectorName), theme, control)
    ELSE Str(selectorName)

\* The property key output[selector] uses: a key that is not a string is
\* converted to one
SubLevelKey(selector) == IF selector.t = "string" THEN selector.s ELSE selector.t

\* never skipping
SkipNever(selector) == FALSE

\* a skip of null alone
SkipOnlyNull(selector) == selector = Null

\* !selector
Skip(selector) == ~Truthy(selector)

\* a sub-level made anew at every use of its selector
EnsureSubLevelAnew(out, key) == Set(out, key, EmptyObject)

\* if (!output[selector]) { output[selector] = {} }
EnsureSubLevel(out, key) ==
    IF ~Truthy(Get(out, key)) THEN Set(out, key, EmptyObject) ELSE out

RECURSIVE mutableCompileSxProperty(_, _, _, _, _, _)
RECURSIVE CompileSelectorNames(_, _, _, _, _, _, _)

\* The for loop over Object.keys(x), from index i on
CompileSelectorNames(theme, selectors, control, st, propName, x, i) ==
    IF i > Len(x.o) \/ st.threw THEN st
    ELSE
    LET selectorName == x.o[i].k
        selector == ResolveSelector(selectors, selectorName, theme, control)
        resolved == [st EXCEPT !.calls =
                        IF Truthy(Get(selectors, selectorName))
                        THEN Append(@, [call |-> "selector", name |-> selectorName,
                                        theme |-> theme, control |-> control])
                        ELSE @]
    IN  IF IsDefault(selectorName)
        THEN CompileSelectorNames(theme, selectors, control,
                 mutableCompileSxProperty(theme, selectors, control, st,
                                          propName, x.o[i].v),
                 propName, x, i + 1)
        ELSE IF selector = Throw
        THEN [resolved EXCEPT !.threw = TRUE]
        ELSE IF Skip(selector)
        THEN CompileSelectorNames(theme, selectors, control, resolved, propName, x, i + 1)
        ELSE
        LET key == SubLevelKey(selector)
            out1 == EnsureSubLevel(resolved.out, key)
            sub == mutableCompileSxProperty(theme, selectors, control,
                       [resolved EXCEPT !.out = Get(out1, key)],
                       propName, x.o[i].v)
        IN  CompileSelectorNames(theme, selectors, control,
                [sub EXCEPT !.out = Set(out1, key, sub.out)],
                propName, x, i + 1)

\* mutableCompileSxProperty(theme, selectors = {}, control, output, propName, x)
\* with output the level st.out
mutableCompileSxProperty(theme, selectors, control, st, propName, x) ==
    IF st.threw THEN st
    ELSE IF x.t = "function"
    THEN [st EXCEPT !.out = Set(@, propName, CallThemeFn(x, theme)),
                    !.calls = Append(@, [call |-> "value", fn |-> x, theme |-> theme])]
    ELSE IF x.t = "number" \/ x.t = "string"
    THEN [st EXCEPT !.out = Set(@, propName, x)]
    ELSE IF isPlainObject(x)
    THEN CompileSelectorNames(theme,
             IF selectors = Undefined THEN EmptyObject ELSE selectors,
             control, st, propName, x, 1)
    ELSE st

----------------------------------------------------------------------------
(* compileSx *)

\* a || b
Or(a, b) == IF Truthy(a) THEN a ELSE b

\* { ...a, ...b }
Spread(a, b) == ObjectAssign(ObjectAssign(EmptyObject, a), b)

\* a map step that leaves the mapped key in place
ExpandMapKeepKey(styleObject, key, fn, mergedTheme) ==
    ObjectAssign(styleObject, CallMap(fn, Get(styleObject, key), mergedTheme))

\* const mapValue = styleObject[key]; delete styleObject[key];
\* Object.assign(styleObject, maps[key](mapValue, mergedTheme))
ExpandMap(styleObject, key, fn, mergedTheme) ==
    ObjectAssign(Delete(styleObject, key),
                 CallMap(fn, Get(styleObject, key), mergedTheme))

\* The for loop over Object.keys(maps), from index i on: the style object and
\* the log of calls afterwards
RECURSIVE ExpandMaps(_, _, _, _, _)
ExpandMaps(styleObject, log, mapTable, mergedTheme, i) ==
    IF i > Len(mapTable.o) THEN [styleObject |-> styleObject, calls |-> log]
    ELSE ExpandMaps(
             ExpandMap(styleObject, mapTable.o[i].k, mapTable.o[i].v, mergedTheme),
             Append(log, [call |-> "map", key |-> mapTable.o[i].k,
                          value |-> Get(styleObject, mapTable.o[i].k),
                          theme |-> mergedTheme]),
             mapTable, mergedTheme, i + 1)

\* The for loop over Object.keys(styleObject), from index i on
RECURSIVE CompileProps(_, _, _, _, _, _)
CompileProps(mergedTheme, selectors, control, st, styleObject, i) ==
    IF i > Len(styleObject.o) THEN st
    ELSE CompileProps(mergedTheme, selectors, control,
             mutableCompileSxProperty(mergedTheme, selectors, control, st,
                                      styleObject.o[i].k, styleObject.o[i].v),
             styleObject, i + 1)

\* const mergedTheme = { ...theme, ...options.theme }
MergedTheme(theme, optionsTheme) == Spread(theme, optionsTheme)

\* compileSx(options) in heap h: the heap afterwards, the reference returned,
\* the functions invoked, and whether the call raised
compileSx(h, options) ==
    LET theme == Or(options.theme, EmptyObject)
        m == mergeSx(h, options.sx)
        mergedTheme == MergedTheme(theme, options.theme)
        expanded == IF Truthy(options.maps)
                    THEN ExpandMaps(m.heap[m.ref], << >>, options.maps, mergedTheme, 1)
                    ELSE [styleObject |-> m.heap[m.ref], calls |-> << >>]
        h1 == [m.heap EXCEPT ![m.ref] = expanded.styleObject]
        outRef == Len(h1) + 1
        st == CompileProps(mergedTheme, options.selectors, options.control,
                           CompileState(EmptyObject, expanded.calls, FALSE),
                           expanded.styleObject, 1)
    IN  [heap |-> Append(h1, st.out), ref |-> outRef,
         calls |-> st.calls, threw |-> st.threw]

\* theme: props.theme || theme
UseStyleTheme(propsTheme, theme) == Or(propsTheme, theme)

\* The hook createUseSx(selectors) returns, called with props where
\* ControlContext holds `control` and ThemeContext holds `theme`
useStyle(h, selectors, props, control, theme) ==
    compileSx(h,
              [control |-> Or(props.control, control),
               selectors |-> Or(props.selectors, selectors),
               maps |-> props.maps,
               sx |-> Arr(ensureTruthyArray(props.sx)),
               theme |-> UseStyleTheme(props.theme, theme)])

----------------------------------------------------------------------------
(* The inputs *)

\* The longest sx array
MaxSx == 3

States == {"active", "checked", "disabled", "focus", "hover"}

SelTop == {"default", "hover", "focus", "focusWithin", "mobile",
           "@media(min-width: 420px)"}

SelInner == {"default", "hover", "div"}

PropNames == {"color", "fill"}

Literals == {Str("black"), Str("red"), Num(1)}

Ignored == {Null, Undefined, Arr(<< Str("red") >>)}

Leaf == Literals \cup {themeFn("fg"), Null}

LeafInner == {Str("red"), themeFn("fg"), Null}

\* Selector maps of one property
OneKey(names, values) == {Obj(<< P(k, v) >>) : k \in names, v \in values}

TwoKeys(names, values) ==
    {Obj(<< P(k[1], v[1]), P(k[2], v[2]) >>) :
        k \in {kk \in names \X names : kk[1] # kk[2]}, v \in values \X values}

Trees ==
    Leaf
    \cup OneKey(SelTop \cup States \cup {""}, Leaf \cup Ignored)
    \cup TwoKeys(SelTop, Leaf)
    \cup OneKey(SelTop, OneKey(SelInner, LeafInner) \cup TwoKeys(SelInner, LeafInner))
    \cup {Obj(<< P("default", Str("black")), P(k, v) >>) :
            k \in SelTop \ {"default"}, v \in OneKey(SelInner, LeafInner)}

\* Themes: the one a ThemeProvider supplies and the one given as props.theme
ProvidedTheme ==
    Obj(<< P("fg", Str("blue")), P("bg", Str("white")),
           P("media", Obj(<< P("mobile", Str("@media(max-width: 420px)")) >>)) >>)

PropsTheme == Obj(<< P("fg", Str("green")) >>)

\* Control descriptors: none, the one control() provides, and that one with
\* the flag of one state set
Controls ==
    {Undefined, controlContext}
    \cup {Set(controlContext, s, Bool(b)) : s \in States, b \in BOOLEAN}

ColorMaps == Obj(<< P("color", colorToFill) >>)

----------------------------------------------------------------------------
(* The state machine: a component holding props and reading its contexts,    *)
(* which calls mergeSx(sx) and the useSx hook                                *)

Start(h, sxArg, mapTable, pSel, hSel, pTheme, cTheme, pControl, cControl) ==
    /\ heap = h
    /\ sx = sxArg
    /\ maps = mapTable
    /\ propSelectors = pSel
    /\ hookSelectors = hSel
    /\ propTheme = pTheme
    /\ ctxTheme = cTheme
    /\ propControl = pControl
    /\ ctxControl = cControl
    /\ merged = Undefined
    /\ output = Undefined
    /\ calls = << >>
    /\ pc = [merged |-> FALSE, rendered |-> FALSE, last |-> "none"]

\* One specification of one property, holding any selector map
InitSelectorMaps ==
    \E v \in Trees, hSel \in {defaultSelectors, customSelectors},
       c \in { << Undefined, Undefined >>, << Undefined, controlContext >>,
               << Set(controlContext, "hover", Bool(TRUE)), Undefined >>,
               << Set(controlContext, "hover", Bool(FALSE)), controlContext >>,
               << Set(controlContext, "focus", Bool(TRUE)), Undefined >> } :
        /\ hSel = customSelectors => c = << Undefined, Undefined >>
        /\ Start(<< Obj(<< P("color", v) >>) >>, Ref(1), Undefined, Undefined, hSel,
              Undefined, ProvidedTheme, c[1], c[2])

\* Every state's selector under every control descriptor
InitStates ==
    \E s \in States, c \in Controls, withDefault \in BOOLEAN :
        Start(<< Obj(<< P("color",
                   IF withDefault
                   THEN Obj(<< P("default", Str("black")), P(s, Str("red")) >>)
                   ELSE Obj(<< P(s, Str("red")) >>)) >>) >>,
              Arr(<< Ref(1) >>), Undefined, Undefined, defaultSelectors,
              Undefined, Undefined, c, Undefined)

ThemedValues ==
    {themeFn("fg"), themeFn("bg"), Str("black"),
     Obj(<< P("default", themeFn("fg")), P("hover", themeFn("bg")) >>),
     Obj(<< P("default", Str("black")), P("hover", Str("red")) >>),
     Obj(<< P("default", Str("black")), P("mobile", Str("red")) >>)}

\* One or two properties, with or without a map table, themes and registries
InitThemesAndMaps ==
    \E names \in {<< "color" >>, << "fill" >>, << "color", "fill" >>, << "fill", "color" >>},
       v \in ThemedValues \X ThemedValues,
       mapTable \in {Undefined, ColorMaps},
       pTheme \in {Undefined, PropsTheme}, cTheme \in {Undefined, ProvidedTheme},
       sel \in { << Undefined, defaultSelectors >>, << Undefined, customSelectors >>,
                 << customSelectors, defaultSelectors >> },
       cControl \in {Undefined, controlContext} :
        /\ Len(names) = 1 => v[2] = v[1]
        /\ Start(<< Obj([i \in 1..Len(names) |-> P(names[i], v[i])]) >>,
                 Ref(1), mapTable, sel[1], sel[2], pTheme, cTheme, Undefined, cControl)

MergedValues ==
    {Str("red"), Obj(<< P("default", Str("black")) >>),
     Obj(<< P("hover", Str("red")) >>)}

MergedSpecs ==
    {Obj(<< P("color", v) >>) : v \in MergedValues}
    \cup {Obj(<< P("fill", Str("black")), P("color", Obj(<< P("default", Str("black")) >>)) >>),
          Obj(<< P("fill", Undefined) >>)}

SxEntries == {Ref(1), Ref(2), Null, Bool(FALSE), Arr(<< Ref(2), Undefined >>)}

SxArrays == UNION {[1..n -> SxEntries] : n \in 0..MaxSx}

\* Two specifications, and an sx that is one of them, nothing, or an array of
\* them and falsy entries
InitMerge ==
    \E a \in MergedSpecs, b \in MergedSpecs,
       sxArg \in {Ref(1), Undefined} \cup {Arr(x) : x \in SxArrays},
       mapTable \in {Undefined, ColorMaps} :
        /\ mapTable # Undefined => sxArg.t = "array" /\ Len(sxArg.a) <= 2
        /\ Start(<< a, b >>, sxArg, mapTable, Undefined, defaultSelectors,
                 Undefined, Undefined, Undefined, Undefined)

SameSelectorValues ==
    OneKey({"focus", "focusWithin", "&:focus"}, {Str("black"), Str("red")})
    \cup {Obj(<< P("default", Str("black")), P("focus", Str("red")) >>),
          Obj(<< P("focus", Null) >>)}

\* Two properties whose selector maps use names of one selector
InitSameSelector ==
    \E v \in SameSelectorValues \X SameSelectorValues,
       c \in {Undefined, controlContext, Set(controlContext, "focus", Bool(TRUE)),
              Set(controlContext, "focus", Bool(FALSE))} :
        Start(<< Obj(<< P("color", v[1]), P("fill", v[2]) >>) >>, Ref(1), Undefined,
              Undefined, defaultSelectors, Undefined, Undefined, Undefined, c)

Init ==
    InitSelectorMaps \/ InitStates \/ InitThemesAndMaps \/ InitMerge
    \/ InitSameSelector

\* The component calls mergeSx(sx)
MergeSx ==
    /\ ~pc.merged
    /\ LET r == mergeSx(heap, sx)
       IN  /\ heap' = r.heap
           /\ merged' = Ref(r.ref)
    /\ pc' = [pc EXCEPT !.merged = TRUE, !.last = "merged"]
    /\ UNCHANGED << sx, maps, propSelectors, hookSelectors, propTheme, ctxTheme,
                    propControl, ctxControl, output, calls >>

\* The component renders: it calls the hook with its props
UseStyle ==
    /\ ~pc.rendered
    /\ LET r == useStyle(heap, hookSelectors,
                         [control |-> propControl, selectors |-> propSelectors,
                          maps |-> maps, sx |-> sx, theme |-> propTheme],
                         ctxControl, ctxTheme)
       IN  /\ heap' = r.heap
           /\ output' = IF r.threw THEN Undefined ELSE Ref(r.ref)
           /\ calls' = r.calls
           /\ pc' = [pc EXCEPT !.rendered = TRUE,
                               !.last = IF r.threw THEN "threw" ELSE "done"]
    /\ UNCHANGED << sx, maps, propSelectors, hookSelectors, propTheme, ctxTheme,
                    propControl, ctxControl, merged >>

Next == MergeSx \/ UseStyle

Spec == Init /\ [][Next]_vars

----------------------------------------------------------------------------
(* What the properties below speak of *)

\* The hook has returned
Rendered == pc.rendered /\ output # Undefined

\* The object the hook returned
Out == heap[output.r]

\* The object mergeSx returned
Merged == heap[merged.r]

\* The boundary descriptor and the registry in effect
EffControl == IF propControl # Undefined THEN propControl ELSE ctxControl

EffSelectors == IF propSelectors # Undefined THEN propSelectors ELSE hookSelectors

\* The specifications sx denotes, in order: falsy entries dropped, nested
\* arrays flattened
RECURSIVE SpecsOf(_)
SpecsOf(x) ==
    IF x.t = "ref" THEN << heap[x.r] >>
    ELSE IF x.t = "array" /\ Len(x.a) > 0
    THEN SpecsOf(Head(x.a)) \o SpecsOf(Arr(Tail(x.a)))
    ELSE << >>

\* sx denotes exactly the one specification spec
SxIs(spec) == SpecsOf(sx) = << spec >>

\* An object as an unordered mapping, at every level
RECURSIVE Unordered(_)
Unordered(v) ==
    IF v.t = "object"
    THEN [t |-> "object", m |-> [k \in KeySet(v) |-> Unordered(Get(v, k))]]
    ELSE v

\* Two values equal up to the order of keys
Same(a, b) == Unordered(a) = Unordered(b)

\* The keys used at any level of an object
RECURSIVE KeysDeep(_)
KeysDeep(v) ==
    IF v.t = "object"
    THEN KeySet(v) \cup UNION {KeysDeep(Get(v, k)) : k \in KeySet(v)}
    ELSE {}

\* The value at a path of keys
RECURSIVE At(_, _)
At(v, path) == IF path = << >> THEN v ELSE At(Get(v, Head(path)), Tail(path))

----------------------------------------------------------------------------
(* C1: with the default registry, no boundary descriptor and no map table,   *)
(* { P: { default: X, hover: Y } } compiles to P: X at the top level and     *)
(* exactly { P: Y } under "&:hover"; 'default' creates no nested level.      *)

DefaultHover(p, x, y) == Obj(<< P(p, Obj(<< P("default", x), P("hover", y) >>)) >>)

C1_DefaultSelectorLaw ==
    \A p \in PropNames, x \in Literals, y \in Literals :
        (/\ Rendered
         /\ SxIs(DefaultHover(p, x, y))
         /\ EffSelectors = defaultSelectors
         /\ EffControl = Undefined
         /\ maps = Undefined)
        => /\ KeySet(Out) = {p, "&:hover"}
           /\ Get(Out, p) = x
           /\ Get(Out, "&:hover") = Obj(<< P(p, y) >>)
           /\ "default" \notin KeysDeep(Out)

C1_Witness ==
    /\ Rendered
    /\ SxIs(DefaultHover("color", Str("black"), Num(1)))
    /\ EffSelectors = defaultSelectors
    /\ EffControl = Undefined
    /\ maps = Undefined
    /\ Get(Out, "&:hover") = Obj(<< P("color", Num(1)) >>)

----------------------------------------------------------------------------
(* C2: mergeSx is last-wins per top-level key and never deep-merges: every   *)
(* key has the whole value of the last specification that defines it, falsy  *)
(* entries contribute nothing, and the hook compiles the array as it         *)
(* compiles that merged specification alone.                                 *)

\* The last specification of a sequence that defines key k
LastDefining(specs, k) ==
    specs[CHOOSE i \in 1..Len(specs) :
            /\ HasOwn(specs[i], k)
            /\ \A j \in (i + 1)..Len(specs) : ~HasOwn(specs[j], k)]

AllKeys(specs) == UNION {KeySet(specs[i]) : i \in 1..Len(specs)}

LastWins(result, specs) ==
    /\ KeySet(result) = AllKeys(specs)
    /\ \A k \in AllKeys(specs) : Get(result, k) = Get(LastDefining(specs, k), k)

\* What the hook returns for the one specification spec, in the same context
CompiledAlone(spec, mapTable) ==
    LET r == useStyle(<< spec >>, hookSelectors,
                      [control |-> propControl, selectors |-> propSelectors,
                       maps |-> mapTable, sx |-> Ref(1), theme |-> propTheme],
                      ctxControl, ctxTheme)
    IN  [out |-> r.heap[r.ref], threw |-> r.threw,
         values |-> SelectSeq(r.calls, LAMBDA c : c.call = "value")]

C2_MergeLaw ==
    /\ pc.merged => LastWins(Merged, SpecsOf(sx))
    /\ (Rendered /\ pc.merged) => Same(Out, CompiledAlone(Merged, maps).out)

C2_Witness ==
    /\ pc.merged
    /\ Rendered
    /\ sx = Arr(<< Ref(1), Null, Ref(2) >>)
    /\ heap[1] = Obj(<< P("fill", Str("black")),
                        P("color", Obj(<< P("default", Str("black")) >>)) >>)
    /\ heap[2] = Obj(<< P("color", Obj(<< P("hover", Str("red")) >>)) >>)
    /\ Same(Merged, Obj(<< P("color", Obj(<< P("hover", Str("red")) >>)),
                           P("fill", Str("black")) >>))
    /\ Same(Out, Obj(<< P("fill", Str("black")),
                        P("&:hover", Obj(<< P("color", Str("red")) >>)) >>))

----------------------------------------------------------------------------
(* The selector a name stands for, as the documentation of the registry      *)
(* gives it                                                                  *)

\* The three-way decision of a default resolver for state s under control c
ThreeWay(s, c) ==
    IF c = Undefined THEN Str("&:" \o s)
    ELSE IF Get(c, s) = Bool(TRUE) THEN Str("&")
    ELSE IF Get(c, s) = Bool(FALSE) THEN Null
    ELSE Str(ComponentSelector \o ":" \o s \o " &")

\* The effective theme: the ambient theme with props.theme spread over it
EffTheme == Spread(ctxTheme, propTheme)

\* The selector a selector-map key stands for: a registered name stands for
\* its resolver's result, any other key for itself
Stands(k) ==
    IF k = "mobile" /\ HasOwn(EffSelectors, "mobile")
    THEN Get(Get(EffTheme, "media"), "mobile")
    ELSE IF k \in States THEN ThreeWay(k, EffControl)
    ELSE IF k = "focusWithin" THEN ThreeWay("focus", EffControl)
    ELSE Str(k)

\* { color: { default: black, [s]: red } }
DefaultAnd(s) ==
    Obj(<< P("color", Obj(<< P("default", Str("black")), P(s, Str("red")) >>)) >>)

----------------------------------------------------------------------------
(* C3, as stated: with a boundary descriptor whose hover flag is true,       *)
(* { P: { default: X, hover: Y } } puts P: Y at the top level of the output, *)
(* which has no "&:hover" key and no nested level.                           *)

HoverForced(p, x, y) ==
    /\ Rendered
    /\ SxIs(DefaultHover(p, x, y))
    /\ EffSelectors = defaultSelectors
    /\ EffControl # Undefined
    /\ Get(EffControl, "hover") = Bool(TRUE)
    /\ maps = Undefined

C3_Original ==
    \A p \in PropNames, x \in Literals, y \in Literals :
        HoverForced(p, x, y)
        => /\ Get(Out, p) = y
           /\ KeySet(Out) = {p}

(* C3, amended: with a boundary descriptor whose hover flag is true, the     *)
(* hover branch is written under the key "&": the output is                  *)
(* { P: X, "&": { P: Y } }, and it has no "&:hover" key.                     *)
C3_BoundaryOverrideLaw ==
    \A p \in PropNames, x \in Literals, y \in Literals :
        HoverForced(p, x, y)
        => /\ KeySet(Out) = {p, "&"}
           /\ Get(Out, p) = x
           /\ Get(Out, "&") = Obj(<< P(p, y) >>)

C3_Witness ==
    /\ HoverForced("color", Str("black"), Str("red"))
    /\ Get(Out, "&") = Obj(<< P("color", Str("red")) >>)

----------------------------------------------------------------------------
(* C4: each default resolver for a state s of active, checked, disabled,     *)
(* focus, hover gives "&:s" without a boundary descriptor, "&" or null for   *)
(* a true or false flag of s, and select(":s") followed by " &" otherwise;   *)
(* the branch of s is written under that key, or nowhere when it is null.    *)

C4_ThreeWayResolver ==
    /\ \A s \in States :
          CallSelector(Get(defaultSelectors, s), ctxTheme, EffControl)
              = ThreeWay(s, EffControl)
    /\ \A s \in States :
          (/\ Rendered
           /\ SxIs(DefaultAnd(s))
           /\ EffSelectors = defaultSelectors
           /\ maps = Undefined)
          => IF ThreeWay(s, EffControl) = Null
             THEN Out = Obj(<< P("color", Str("black")) >>)
             ELSE /\ KeySet(Out) = {"color", ThreeWay(s, EffControl).s}
                  /\ Get(Out, "color") = Str("black")
                  /\ Get(Out, ThreeWay(s, EffControl).s) = Obj(<< P("color", Str("red")) >>)

C4_Witness ==
    /\ Rendered
    /\ SxIs(DefaultAnd("hover"))
    /\ EffControl = controlContext
    /\ Get(Out, ".sc-AxjAm:hover &") = Obj(<< P("color", Str("red")) >>)

----------------------------------------------------------------------------
(* C5: map expansion comes before selector compilation: the map of key K     *)
(* receives the uncompiled value at K, and the output is that of the         *)
(* specification with K replaced by what the map returns; the mapped key     *)
(* appears at no level of the output.                                        *)

\* The one specification sx denotes
TheSpec == SpecsOf(sx)[1]

MapCalls == SelectSeq(calls, LAMBDA c : c.call = "map")

ValueCalls == SelectSeq(calls, LAMBDA c : c.call = "value")

\* The specification with color replaced by { fill: <the value of color> }
ColorReplaced(spec) == Set(Delete(spec, "color"), "fill", Get(spec, "color"))

ColorMapped ==
    /\ Rendered
    /\ Len(SpecsOf(sx)) = 1
    /\ maps = ColorMaps
    /\ HasOwn(TheSpec, "color")

C5_MapExpansionLaw ==
    ColorMapped
    => /\ Len(MapCalls) = 1
       /\ MapCalls[1].key = "color"
       /\ MapCalls[1].value = Get(TheSpec, "color")
       /\ Same(Out, CompiledAlone(ColorReplaced(TheSpec), Undefined).out)
       /\ "color" \notin KeysDeep(Out)
       /\ (/\ TheSpec = DefaultHover("color", Str("black"), Str("red"))
           /\ EffControl = Undefined)
          => Same(Out, Obj(<< P("fill", Str("black")),
                              P("&:hover", Obj(<< P("fill", Str("red")) >>)) >>))

C5_Witness ==
    /\ ColorMapped
    /\ TheSpec = DefaultHover("color", Str("black"), Str("red"))
    /\ EffControl = Undefined
    /\ Get(Out, "&:hover") = Obj(<< P("fill", Str("red")) >>)

----------------------------------------------------------------------------
(* C6: every theme function, map function and selector resolver invoked is   *)
(* given the effective theme, the ambient theme with props.theme spread over *)
(* it, and a theme function's result is written at the property name.        *)

C6_ThemeFunctionLaw ==
    Rendered
    => /\ \A i \in 1..Len(calls) : calls[i].theme = EffTheme
       /\ \A p \in PropNames, k \in {"fg", "bg"} :
             (SxIs(Obj(<< P(p, themeFn(k)) >>)) /\ maps = Undefined)
             => Out = Obj(<< P(p, Get(EffTheme, k)) >>)

----------------------------------------------------------------------------
(* C7: a map whose key is absent from the merged specification is not        *)
(* invoked, and the output is the one compiled without that map.             *)

C7_OnlyPresentKeysExpanded ==
    (/\ Rendered
     /\ Len(SpecsOf(sx)) = 1
     /\ maps = ColorMaps
     /\ ~HasOwn(TheSpec, "color"))
    => /\ MapCalls = << >>
       /\ Same(Out, CompiledAlone(TheSpec, Undefined).out)

----------------------------------------------------------------------------
(* C8: when the selector of a selector-map key is null, the output has no    *)
(* key for it, nothing nested under the key is compiled into any level, and  *)
(* no theme function nested under it is invoked: the output and the theme    *)
(* functions invoked are those of the specification without such keys.       *)

\* A selector-map key whose selector is null
IsNullKey(k) == k # "default" /\ Stands(k) = Null

\* A property value without the keys whose selector is null, at every level
RECURSIVE Pruned(_)
Pruned(x) ==
    IF x.t = "object"
    THEN LET kept == SelectSeq(x.o, LAMBDA e : ~IsNullKey(e.k))
         IN  Obj([i \in 1..Len(kept) |-> P(kept[i].k, Pruned(kept[i].v))])
    ELSE x

\* The keys whose selector is null, at any level of a property value
RECURSIVE NullKeys(_)
NullKeys(x) ==
    IF x.t = "object"
    THEN {k \in KeySet(x) : IsNullKey(k)} \cup UNION {NullKeys(Get(x, k)) : k \in KeySet(x)}
    ELSE {}

PrunedSpec(spec) == Obj([i \in 1..Len(spec.o) |-> P(spec.o[i].k, Pruned(spec.o[i].v))])

NullKeysOfSpec(spec) == UNION {NullKeys(spec.o[i].v) : i \in 1..Len(spec.o)}

C8_NullSkipLaw ==
    (Rendered /\ Len(SpecsOf(sx)) = 1)
    => /\ Same(Out, CompiledAlone(PrunedSpec(TheSpec), maps).out)
       /\ ValueCalls = CompiledAlone(PrunedSpec(TheSpec), maps).values
       /\ KeysDeep(Out) \cap (NullKeysOfSpec(TheSpec) \cup {"null"}) = {}

C8_Witness ==
    /\ Rendered
    /\ Get(EffControl, "hover") = Bool(FALSE)
    /\ SxIs(Obj(<< P("color", Obj(<< P("default", Str("black")),
                                     P("hover", Obj(<< P("div", themeFn("fg")) >>)) >>)) >>))
    /\ Out = Obj(<< P("color", Str("black")) >>)
    /\ ValueCalls = << >>

----------------------------------------------------------------------------
(* C9, as stated: a key that is not in the registry is used verbatim, a      *)
(* registered one stands for its resolver's result, and for every path       *)
(* k1..kn of keys leading to a literal v of property P, the output holds v   *)
(* at the path of their selectors, under P.                                  *)

\* What the branches of a property value write, in order: the path of
\* selectors and the literal written (or "computed" for a theme function).
\* A key whose selector is null leads nowhere; so does one whose selector is
\* the empty string when skipEmpty.
RECURSIVE Writes(_, _, _)
RECURSIVE WritesFrom(_, _, _, _)
WritesFrom(x, path, skipEmpty, i) ==
    IF i > Len(x.o) THEN << >>
    ELSE (IF x.o[i].k = "default" THEN Writes(x.o[i].v, path, skipEmpty)
          ELSE IF Stands(x.o[i].k).t # "string" THEN << >>
          ELSE IF skipEmpty /\ Stands(x.o[i].k).s = "" THEN << >>
          ELSE Writes(x.o[i].v, Append(path, Stands(x.o[i].k).s), skipEmpty))
         \o WritesFrom(x, path, skipEmpty, i + 1)

Writes(x, path, skipEmpty) ==
    IF x \in Literals THEN << [path |-> path, v |-> x] >>
    ELSE IF x.t = "function" THEN << [path |-> path, v |-> [t |-> "computed"]] >>
    ELSE IF x.t = "object" THEN WritesFrom(x, path, skipEmpty, 1)
    ELSE << >>

Compiled == Rendered /\ Len(SpecsOf(sx)) = 1 /\ maps = Undefined

C9_Original ==
    Compiled
    => \A n \in 1..Len(TheSpec.o) :
          LET w == Writes(TheSpec.o[n].v, << >>, FALSE)
          IN  \A i \in 1..Len(w) :
                 w[i].v \in Literals
                 => At(Out, Append(w[i].path, TheSpec.o[n].k)) = w[i].v

(* C9, amended: a key that is not in the registry and not empty is used     *)
(* verbatim (an empty key is skipped like a null selector), a registered     *)
(* one stands for its resolver's result, and for every path of keys leading  *)
(* to a literal v of property P the output holds v at the path of their      *)
(* selectors, under P, unless a later branch of the same property leads to   *)
(* the same path, whose value is then the one there.                         *)
C9_NestedSelectorLaw ==
    Compiled
    => \A n \in 1..Len(TheSpec.o) :
          LET w == Writes(TheSpec.o[n].v, << >>, TRUE)
          IN  \A i \in 1..Len(w) :
                 (/\ w[i].v \in Literals
                  /\ \A j \in (i + 1)..Len(w) : w[j].path # w[i].path)
                 => At(Out, Append(w[i].path, TheSpec.o[n].k)) = w[i].v

C9_Witness ==
    /\ Compiled
    /\ TheSpec = Obj(<< P("color", Obj(<< P("default", Str("black")),
                          P("@media(min-width: 420px)", Obj(<< P("div", Str("red")) >>)) >>)) >>)
    /\ Out = Obj(<< P("color", Str("black")),
                    P("@media(min-width: 420px)",
                      Obj(<< P("div", Obj(<< P("color", Str("red")) >>)) >>)) >>)

----------------------------------------------------------------------------
(* C10: mergeSx and the hook leave every object the caller holds as it was,  *)
(* and what they return is a new object, none of those that existed before  *)
(* the call.                                                                 *)

C10_InputsNotMutated ==
    [][/\ \A r \in 1..Len(heap) : heap'[r] = heap[r]
       /\ merged' # merged => merged'.r \notin 1..Len(heap)
       /\ (output' # output /\ output' # Undefined) => output'.r \notin 1..Len(heap)
       /\ << sx, maps, propSelectors, hookSelectors, propTheme, ctxTheme,
             propControl, ctxControl >>'
            = << sx, maps, propSelectors, hookSelectors, propTheme, ctxTheme,
                 propControl, ctxControl >>]_vars

C10_Witness ==
    /\ pc.merged
    /\ Rendered
    /\ sx = Ref(1)
    /\ maps = ColorMaps
    /\ heap[1] = DefaultHover("color", Str("black"), Str("red"))
    /\ Same(Merged, heap[1])
    /\ merged.r # 1
    /\ Same(Out, Obj(<< P("fill", Str("black")),
                        P("&:hover", Obj(<< P("fill", Str("red")) >>)) >>))


----------------------------------------------------------------------------
(* C11: 'focus' and 'focusWithin' resolve to the same selector for every     *)
(* theme and boundary descriptor, and names that resolve to one selector     *)
(* string, under one property or several, share one sub-level of the output: *)
(* every level holds exactly the properties written at its path and the      *)
(* sub-levels entered below it, and each property there has the value of the *)
(* last write to it at that path.                                            *)

\* The paths of the sub-levels a property value enters: one for every key
\* other than 'default' whose selector is neither null nor empty, whatever
\* the value under the key
RECURSIVE Entered(_, _)
RECURSIVE EnteredFrom(_, _, _)
EnteredFrom(x, path, i) ==
    IF i > Len(x.o) THEN {}
    ELSE (IF x.o[i].k = "default" THEN Entered(x.o[i].v, path)
          ELSE IF Stands(x.o[i].k).t # "string" \/ Stands(x.o[i].k).s = "" THEN {}
          ELSE {Append(path, Stands(x.o[i].k).s)}
               \cup Entered(x.o[i].v, Append(path, Stands(x.o[i].k).s)))
         \cup EnteredFrom(x, path, i + 1)

Entered(x, path) == IF x.t = "object" THEN EnteredFrom(x, path, 1) ELSE {}

\* The sub-levels the whole specification enters
EnteredAll == UNION {Entered(TheSpec.o[n].v, << >>) : n \in 1..Len(TheSpec.o)}

\* The selector strings entered directly below a path
ChildrenOf(path) ==
    {e[Len(e)] : e \in {f \in EnteredAll : /\ Len(f) = Len(path) + 1
                                           /\ SubSeq(f, 1, Len(path)) = path}}

\* What the n-th property writes, in order
WritesOf(n) == Writes(TheSpec.o[n].v, << >>, TRUE)

\* The properties written at a path
WrittenAt(path) ==
    {TheSpec.o[n].k : n \in {m \in 1..Len(TheSpec.o) :
                               \E i \in 1..Len(WritesOf(m)) : WritesOf(m)[i].path = path}}

C11_SameSelectorAccumulates ==
    /\ Get(defaultSelectors, "focus") = Get(defaultSelectors, "focusWithin")
    /\ \A c \in Controls :
          CallSelector(Get(defaultSelectors, "focus"), EffTheme, c)
          = CallSelector(Get(defaultSelectors, "focusWithin"), EffTheme, c)
    /\ Compiled
       => \A path \in {<< >>} \cup EnteredAll :
             /\ At(Out, path).t = "object"
             /\ KeySet(At(Out, path)) = WrittenAt(path) \cup ChildrenOf(path)
             /\ \A n \in 1..Len(TheSpec.o) : \A i \in 1..Len(WritesOf(n)) :
                   (/\ WritesOf(n)[i].path = path
                    /\ WritesOf(n)[i].v \in Literals
                    /\ \A j \in (i + 1)..Len(WritesOf(n)) : WritesOf(n)[j].path # path)
                   => Get(At(Out, path), TheSpec.o[n].k) = WritesOf(n)[i].v

C11_Witness ==
    /\ Compiled
    /\ EffControl = Undefined
    /\ TheSpec = Obj(<< P("color", Obj(<< P("focus", Str("black")) >>)),
                        P("fill", Obj(<< P("focusWithin", Str("red")) >>)) >>)
    /\ Out = Obj(<< P("&:focus", Obj(<< P("color", Str("black")),
                                        P("fill", Str("red")) >>)) >>)


----------------------------------------------------------------------------
(* C12, as stated: the output holds no empty nested mapping; every selector  *)
(* key at every level maps to a sub-level that is not empty.                 *)

\* The paths of the nested mappings of a value
RECURSIVE LevelPaths(_, _)
LevelPaths(v, path) ==
    IF v.t = "object"
    THEN UNION {IF Get(v, k).t = "object"
                THEN {Append(path, k)} \cup LevelPaths(Get(v, k), Append(path, k))
                ELSE {} : k \in KeySet(v)}
    ELSE {}

C12_Original ==
    Rendered => \A path \in LevelPaths(Out, << >>) : At(Out, path) # EmptyObject

(* C12, amended: the nested mappings of the output are exactly the sub-levels *)
(* entered through keys whose selector is neither null nor empty, so a key    *)
(* whose selector is null leaves no mapping behind, empty or not; and such a  *)
(* sub-level is empty exactly when no property is written at its path and no  *)
(* sub-level is entered below it.                                             *)
C12_EmptyLevelLaw ==
    Compiled
    => /\ LevelPaths(Out, << >>) = EnteredAll
       /\ \A path \in LevelPaths(Out, << >>) :
             At(Out, path) = EmptyObject
             <=> (WrittenAt(path) = {} /\ ChildrenOf(path) = {})

C12_Witness ==
    /\ Compiled
    /\ Get(EffControl, "hover") = Bool(FALSE)
    /\ TheSpec = Obj(<< P("color", Obj(<< P("@media(min-width: 420px)",
                                           Obj(<< P("hover", Str("red")) >>)) >>)) >>)
    /\ Out = Obj(<< P("@media(min-width: 420px)", EmptyObject) >>)

=============================================================================
